---- MODULE Spec2Model ----
(***************************************************************************)
(* State-machine model of the render worker (RenderWorkerShim: the worker  *)
(* code that processVideoClip actually loads) and of processVideoClip.     *)
(*                                                                         *)
(* The worker is a single JavaScript thread.  Every action below is one    *)
(* event-loop task (a message handler, a timer, a promise continuation, a  *)
(* codec callback) or, while `running` names a run, the next stretch of    *)
(* that run's synchronous code: nothing else may interleave with it.       *)
(* VideoDecoder / VideoEncoder follow the W3C WebCodecs processing model.  *)
(***************************************************************************)
EXTENDS Integers, Sequences, FiniteSets, TLC

\* ------------------------------------------------------------------ bounds
MaxRuns == 2          \* runs (init commands) a worker may be sent
MaxChunks == 7        \* video samples of the longest source file
MaxAudio == 2         \* audio samples of a source with an audio track
MaxOverlays == 1      \* image overlays of a render config
MaxThrows == 1        \* exceptions raised inside encoder output callbacks
MaxCancels == 1       \* cancel commands sent to the worker
MaxStartSec == 2      \* largest trim start (seconds) besides "beyond the end"
FrameMicros == 1000000 \* spacing of the source samples' timestamps (us)
GopLen == 3           \* key sample spacing of the source
MaxStep == 3          \* sample spacing of the sparsest source, in FrameMicros
AudioMicros == 2500000 \* spacing of the source's audio samples (us)

\* ------------------------------------------------------- program constants
QUEUE_LIMIT == 5              \* while (videoDecoder.decodeQueueSize > 5)
KEYFRAME_INTERVAL == 2000000
PROGRESS_EVERY == 15          \* framesProcessed % 15 === 0
MICROS == 1000000             \* startTime * 1_000_000
Infinity == 2000000000        \* config.endTime || Infinity
Null == 0 - 1                 \* timestampOffset = null

Runs == 1..MaxRuns

\* ------------------------------------------------------------ source files
\* A source file: a video track or none, n video samples spaced step * FrameMicros
\* apart whose key samples start at firstKey and repeat every GopLen, and an
\* audio track or none.
IsKey(src, i) == i >= src.firstKey /\ (i - src.firstKey) % GopLen = 0

VideoChunks(src) ==
  IF ~src.hasVideo THEN << >>
  ELSE [i \in 1..src.n |->
          [timestamp |-> (i - 1) * src.step * FrameMicros,
           type |-> IF IsKey(src, i) THEN "key" ELSE "delta"]]

AudioChunks(src) ==
  IF ~src.hasAudio THEN << >>
  ELSE [i \in 1..MaxAudio |-> [timestamp |-> (i - 1) * AudioMicros]]

\* ------------------------------------------------ startPipeline: trim range
StartMicro(c) == c.startTime * MICROS
EndMicro(c) == IF c.endTime = 0 THEN Infinity ELSE c.endTime * MICROS

\* videoChunks.findIndex(c => c.timestamp >= startMicro), 0 for "not found"
FindIndex(chunks, startMicro) ==
  LET hits == {i \in 1..Len(chunks) : chunks[i].timestamp >= startMicro}
  IN IF hits = {} THEN 0 ELSE CHOOSE i \in hits : \A j \in hits : i <= j

\* if (startIndex === -1) startIndex = 0   (1-based here: the first chunk)
StartIndex(chunks, startMicro) ==
  IF FindIndex(chunks, startMicro) = 0 THEN 1 ELSE FindIndex(chunks, startMicro)

\* the index the backtracking starts from, kept as it is
NoBackTrack(chunks, k) == k

\* while (keyFrameIndex > 0 && videoChunks[keyFrameIndex].type !== 'key') keyFrameIndex--
RECURSIVE BackTrack(_, _)
BackTrack(chunks, k) ==
  IF k > 1 /\ k <= Len(chunks) /\ chunks[k].type # "key"
  THEN BackTrack(chunks, k - 1) ELSE k

KeyFrameIndex(chunks, startMicro) == BackTrack(chunks, StartIndex(chunks, startMicro))

\* for (i = keyFrameIndex; ...) { if (timestamp > endMicro) break; push }
RECURSIVE TakeUntil(_, _, _)
TakeUntil(chunks, i, endMicro) ==
  IF i > Len(chunks) \/ chunks[i].timestamp > endMicro THEN << >>
  ELSE << chunks[i] >> \o TakeUntil(chunks, i + 1, endMicro)

ValidChunks(chunks, startMicro, endMicro) ==
  IF Len(chunks) = 0 THEN << >>
  ELSE TakeUntil(chunks, KeyFrameIndex(chunks, startMicro), endMicro)

\* audioChunks.filter(c => c.timestamp >= startMicro && c.timestamp <= endMicro)
ValidAudio(chunks, startMicro, endMicro) ==
  SelectSeq(chunks, LAMBDA c : c.timestamp >= startMicro /\ c.timestamp <= endMicro)


\* ------------------------------------------------------------------- state
VARIABLES
  demuxer, muxer, compositor, videoEncoder, videoDecoder, \* worker globals: 0 is
  overlayBitmaps,                                         \* null, r the object run r made
  pc,         \* per run: the suspension point or synchronous stretch it is at
  running,    \* the run whose synchronous code holds the thread, or 0
  config,     \* per run: the init command's payload
  local,      \* per run: startPipeline's closure variables
  dmx, dec, enc, mux,  \* the MP4Demuxer / VideoDecoder / VideoEncoder / MP4Muxer objects
  posted,     \* every message handed to self.postMessage, in order
  cancelled,  \* per run: a cancel command was handled while it was in progress
  errFired,   \* per run: its decoder's or encoder's error callback has fired
  throws,     \* exceptions raised so far inside encoder output callbacks
  cancels,    \* cancel commands handled so far
  submitted,  \* per run: the frames its decoder callback gave to videoEncoder.encode
  clip,       \* the state of one processVideoClip call on the main thread
  interp,     \* a keyframe sequence, a query time and getInterpolatedReframe's answer
  solver,     \* the trajectory solver's input and the keyframes it returned
  scan,       \* analyzeVideoForReframe's shot scan and adaptive anchor scan
  ext,        \* one call of MP4Demuxer.getAllVideoChunks / getAllAudioChunks
  crop        \* one call of Compositor.render: its inputs and the crop it set

globals == <<demuxer, muxer, compositor, videoEncoder, videoDecoder, overlayBitmaps>>
objects == <<dmx, dec, enc, mux>>
ghosts == <<cancelled, errFired, throws, cancels, submitted>>
wvars == <<globals, pc, running, config, local, objects, posted, ghosts>>
reframeVars == <<interp, solver, scan>>
units == <<ext, crop>>
mainThread == <<clip, reframeVars, units>>

NoSource == [hasVideo |-> FALSE, n |-> 0, firstKey |-> 1, step |-> 1, hasAudio |-> FALSE]
NoConfig == [startTime |-> 0, endTime |-> 0, overlays |-> 0, src |-> NoSource]

Sources(lens) ==
  {s \in [hasVideo : BOOLEAN, n : lens, firstKey : 1..2, step : {1, MaxStep},
           hasAudio : BOOLEAN] :
      /\ ~s.hasVideo => s.n = 0
      /\ s.n = 0 => s.firstKey = 1
      /\ s.step > 1 => (s.n >= MaxChunks /\ s.firstKey = 1)}

\* the payloads of an init command
ConfigsOf(lens, starts) ==
  [startTime : starts, endTime : 0..1, overlays : 0..MaxOverlays, src : Sources(lens)]

Configs == ConfigsOf({0, 2, MaxChunks}, {0, MaxStartSec, MaxChunks + 1})

\* outputs: the chunks an encoder has put out since it was made; the first of them
\* carries metadata.decoderConfig (WebCodecs: the active output config was null)
\* first: the first chunk a decoder's decode() accepted, once there is one
\* Of a decoder's output callback: outputs counts the frames it was given, closed
\* its frame.close() calls, rendered its compositor.render calls that returned,
\* newFrames the frames compositor.getOutputFrame made for it, newClosed its
\* newFrame.close() calls
NewCodec ==
  [state |-> "none", queue |-> << >>, codec |-> << >>, keyRequired |-> TRUE,
   outputs |-> 0, first |-> << >>,
   closed |-> 0, rendered |-> 0, newFrames |-> 0, newClosed |-> 0]
\* trackAdds, addedAtOutput, handed, dropped: the addVideoTrack calls, the encoder
\* output at which the track was added, the addVideoChunk calls and those of them
\* that returned at `if (this.videoTrackId === null) return`; audioDropped: the
\* addAudioChunk calls that returned at `if (this.audioTrackId === null) return`
NewMuxer ==
  [videoTrack |-> FALSE, audioTrack |-> FALSE, video |-> << >>, audio |-> << >>,
   trackAdds |-> 0, addedAtOutput |-> 0, handed |-> 0, dropped |-> 0,
   audioDropped |-> 0]
NewLocal ==
  [ovLeft |-> 0, waitOn |-> 0, startMicro |-> 0, endMicro |-> 0,
   videoChunks |-> << >>, audioChunks |-> << >>, audioConfig |-> FALSE,
   validChunks |-> << >>, totalVideoFrames |-> 0, next |-> 1,
   decoderStarted |-> FALSE, muxerStarted |-> FALSE,
   timestampOffset |-> Null, lastKeyFrameTime |-> 0 - KEYFRAME_INTERVAL,
   framesProcessed |-> 0]

WorkerInit ==
  /\ demuxer = 0 /\ muxer = 0 /\ compositor = 0
  /\ videoEncoder = 0 /\ videoDecoder = 0 /\ overlayBitmaps = 0
  /\ pc = [r \in Runs |-> "idle"]
  /\ running = 0
  /\ config = [r \in Runs |-> NoConfig]
  /\ local = [r \in Runs |-> NewLocal]
  /\ dmx = [r \in Runs |-> [src |-> NoSource, ready |-> FALSE]]
  /\ dec = [r \in Runs |-> NewCodec]
  /\ enc = [r \in Runs |-> NewCodec]
  /\ mux = [r \in Runs |-> NewMuxer]
  /\ posted = << >>
  /\ cancelled = [r \in Runs |-> FALSE]
  /\ errFired = [r \in Runs |-> FALSE]
  /\ throws = 0
  /\ cancels = 0
  /\ submitted = [r \in Runs |-> << >>]

\* ---------------------------------------------------------------- messages
InProgress(r) == pc[r] \notin {"idle", "done", "failed"}

\* the run's decoder and encoder are closed and the globals hold no codec
Released(r) ==
  /\ videoDecoder = 0 /\ videoEncoder = 0
  /\ dec[r].state # "configured" /\ enc[r].state # "configured"

Msg(type, r, phase, progress, via) ==
  [type |-> type, run |-> r, phase |-> phase, progress |-> progress, via |-> via,
   \* what the post finds: for the checks below, not part of the payload
   released |-> Released(r), midRender |-> dec[r].state # "none",
   afterCancel |-> cancelled[r],
   track |-> IF muxer = 0 THEN FALSE ELSE mux[muxer].videoTrack,
   samples |-> IF muxer = 0 THEN 0 ELSE Len(mux[muxer].video)]

StatusMsg(r, phase, progress) == Msg("status", r, phase, progress, "pipeline")
ErrorMsg(r, via) == Msg("error", r, "", 0, via)
DoneMsg(r) == Msg("done", r, "", 0, "pipeline")

\* ----------------------------------------------------------------- cleanup
CloseCodec(objs, id) ==
  IF id = 0 THEN objs
  ELSE [objs EXCEPT ![id] = [objs[id] EXCEPT !.state = "closed", !.queue = << >>,
                                             !.codec = << >>, !.keyRequired = TRUE]]

cleanup ==
  /\ dec' = CloseCodec(dec, videoDecoder)
  /\ enc' = CloseCodec(enc, videoEncoder)
  /\ videoDecoder' = 0 /\ videoEncoder' = 0
  /\ overlayBitmaps' = 0
  /\ demuxer' = 0 /\ muxer' = 0 /\ compositor' = 0

\* catch (e) { postResponse(error) } finally { cleanup() }, after `before` was posted
Throw(r, before) ==
  /\ posted' = posted \o before \o << ErrorMsg(r, "pipeline") >>
  /\ cleanup
  /\ pc' = [pc EXCEPT ![r] = "failed"]
  /\ running' = 0
  /\ UNCHANGED <<config, local, dmx, mux, ghosts>>


\* ------------------------------------------------- self.onmessage: 'init'
\* startPipeline up to its first await.
HandleInit(r, c) ==
  /\ UNCHANGED mainThread
  /\ running = 0
  /\ pc[r] = "idle"
  /\ config' = [config EXCEPT ![r] = c]
  /\ posted' = Append(posted, StatusMsg(r, "Initializing", 0))
  /\ IF c.overlays > 0
     THEN \* prepareOverlays: overlayBitmaps.clear(), then await createImageBitmap
          /\ overlayBitmaps' = 0
          /\ local' = [local EXCEPT ![r] = [NewLocal EXCEPT !.ovLeft = c.overlays,
                          !.startMicro = StartMicro(c), !.endMicro = EndMicro(c)]]
          /\ pc' = [pc EXCEPT ![r] = "overlays"]
          /\ running' = 0
     ELSE /\ overlayBitmaps' = overlayBitmaps
          /\ local' = [local EXCEPT ![r] = [NewLocal EXCEPT
                          !.startMicro = StartMicro(c), !.endMicro = EndMicro(c)]]
          /\ pc' = [pc EXCEPT ![r] = "newDemuxer"]
          /\ running' = r
  /\ UNCHANGED <<demuxer, muxer, compositor, videoEncoder, videoDecoder, objects, ghosts>>

\* prepareOverlays: one createImageBitmap settles (a failure is caught and skipped)
prepareOverlays(r) ==
  /\ UNCHANGED mainThread
  /\ running = 0
  /\ pc[r] = "overlays"
  /\ \E ok \in BOOLEAN :
       overlayBitmaps' = IF ok THEN overlayBitmaps + 1 ELSE overlayBitmaps
  /\ local' = [local EXCEPT ![r].ovLeft = @ - 1]
  /\ IF local[r].ovLeft = 1
     THEN pc' = [pc EXCEPT ![r] = "newDemuxer"] /\ running' = r
     ELSE UNCHANGED <<pc, running>>
  /\ UNCHANGED <<demuxer, muxer, compositor, videoEncoder, videoDecoder,
                 config, objects, posted, ghosts>>

\* demuxer = new MP4Demuxer(); await demuxer.load(file)
NewDemuxer(r) ==
  /\ UNCHANGED mainThread
  /\ running = r
  /\ pc[r] = "newDemuxer"
  /\ demuxer' = r
  /\ dmx' = [dmx EXCEPT ![r] = [src |-> config[r].src, ready |-> FALSE]]
  /\ pc' = [pc EXCEPT ![r] = "load"]
  /\ running' = 0
  /\ UNCHANGED <<muxer, compositor, videoEncoder, videoDecoder, overlayBitmaps,
                 config, local, dec, enc, mux, posted, ghosts>>

\* MP4Demuxer.load settles: file.onReady resolves it, file.onError rejects it
load(r) ==
  /\ UNCHANGED mainThread
  /\ running = 0
  /\ pc[r] = "load"
  /\ \E ok \in BOOLEAN :
       IF ok
       THEN /\ dmx' = [dmx EXCEPT ![r].ready = TRUE]
            /\ pc' = [pc EXCEPT ![r] = "callVideo"]
            /\ running' = r
            /\ UNCHANGED <<globals, config, local, dec, enc, mux, posted, ghosts>>
       ELSE Throw(r, << >>)

\* demuxer.getAllVideoChunks(): resolves [] at once without a video track
getAllVideoChunks(r) ==
  /\ UNCHANGED mainThread
  /\ running = r
  /\ pc[r] = "callVideo"
  /\ IF demuxer = 0
     THEN Throw(r, << >>)
     ELSE /\ IF dmx[demuxer].ready /\ dmx[demuxer].src.hasVideo
             THEN /\ local' = [local EXCEPT ![r].waitOn = demuxer]
                  /\ pc' = [pc EXCEPT ![r] = "videoChunks"]
                  /\ running' = 0
             ELSE /\ local' = [local EXCEPT ![r].videoChunks = << >>]
                  /\ pc' = [pc EXCEPT ![r] = "callAudio"]
                  /\ running' = r
          /\ UNCHANGED <<globals, config, objects, posted, ghosts>>

\* the 100 ms poll finds chunks.length > 0 and unchanged, and resolves
VideoChunksResolved(r) ==
  /\ UNCHANGED mainThread
  /\ running = 0
  /\ pc[r] = "videoChunks"
  /\ Len(VideoChunks(dmx[local[r].waitOn].src)) > 0
  /\ local' = [local EXCEPT ![r].videoChunks = VideoChunks(dmx[local[r].waitOn].src)]
  /\ pc' = [pc EXCEPT ![r] = "callAudio"]
  /\ running' = r
  /\ UNCHANGED <<globals, config, objects, posted, ghosts>>

\* demuxer.getAllAudioChunks(): resolves [] at once without an audio track
getAllAudioChunks(r) ==
  /\ UNCHANGED mainThread
  /\ running = r
  /\ pc[r] = "callAudio"
  /\ IF demuxer = 0
     THEN Throw(r, << >>)
     ELSE /\ IF dmx[demuxer].ready /\ dmx[demuxer].src.hasAudio
             THEN /\ local' = [local EXCEPT ![r].waitOn = demuxer]
                  /\ pc' = [pc EXCEPT ![r] = "audioChunks"]
                  /\ running' = 0
             ELSE /\ local' = [local EXCEPT ![r].audioChunks = << >>]
                  /\ pc' = [pc EXCEPT ![r] = "setup"]
                  /\ running' = r
          /\ UNCHANGED <<globals, config, objects, posted, ghosts>>

AudioChunksResolved(r) ==
  /\ UNCHANGED mainThread
  /\ running = 0
  /\ pc[r] = "audioChunks"
  /\ Len(AudioChunks(dmx[local[r].waitOn].src)) > 0
  /\ local' = [local EXCEPT ![r].audioChunks = AudioChunks(dmx[local[r].waitOn].src)]
  /\ pc' = [pc EXCEPT ![r] = "setup"]
  /\ running' = r
  /\ UNCHANGED <<globals, config, objects, posted, ghosts>>

\* startPipeline from getVideoConfig() to the 'Rendering' status: the muxer, the
\* compositor, the chunk filter, the encoder and the decoder are set up
Setup(r) ==
  /\ UNCHANGED mainThread
  /\ running = r
  /\ pc[r] = "setup"
  /\ IF demuxer = 0
     THEN Throw(r, << >>)                        \* TypeError on null
     ELSE IF ~(dmx[demuxer].ready /\ dmx[demuxer].src.hasVideo)
     THEN Throw(r, << >>)                        \* "No video track found."
     ELSE \E gl \in BOOLEAN :
       IF ~gl
       THEN Throw(r, << >>)                      \* "WebGL2 not supported"
       ELSE
         LET audioConfig == dmx[demuxer].ready /\ dmx[demuxer].src.hasAudio
             valid == ValidChunks(local[r].videoChunks, local[r].startMicro,
                                  local[r].endMicro)
         IN /\ muxer' = r
            /\ mux' = [mux EXCEPT ![r] = [NewMuxer EXCEPT !.audioTrack = audioConfig]]
            /\ compositor' = r
            /\ videoEncoder' = r
            /\ enc' = [enc EXCEPT ![r] = [NewCodec EXCEPT !.state = "configured"]]
            /\ videoDecoder' = r
            /\ dec' = [dec EXCEPT ![r] = [NewCodec EXCEPT !.state = "configured"]]
            /\ local' = [local EXCEPT ![r].audioConfig = audioConfig,
                                      ![r].validChunks = valid,
                                      ![r].totalVideoFrames = Len(valid)]
            /\ posted' = Append(posted, StatusMsg(r, "Rendering", 0))
            /\ pc' = [pc EXCEPT ![r] = "feed"]
            /\ running' = r
            /\ UNCHANGED <<demuxer, overlayBitmaps, config, dmx, ghosts>>


\* ------------------------------------------------------ the decode loop
\* One iteration of `for (const chunk of validChunks)`, or, after the last
\* chunk, the call of videoDecoder.flush().
Feed(r) ==
  /\ UNCHANGED mainThread
  /\ running = r
  /\ pc[r] = "feed"
  /\ LET L == local[r]
         i == L.next
     IN IF i > Len(L.validChunks)
        THEN \* await videoDecoder.flush(): rejected at once unless configured
             IF videoDecoder = 0 \/ dec[videoDecoder].state # "configured"
             THEN Throw(r, << >>)
             ELSE /\ local' = [local EXCEPT ![r].waitOn = videoDecoder]
                  /\ pc' = [pc EXCEPT ![r] = "decFlush"]
                  /\ running' = 0
                  /\ UNCHANGED <<globals, config, objects, posted, ghosts>>
        ELSE IF ~L.decoderStarted /\ L.validChunks[i].type # "key"
        THEN \* skip until the first keyframe
             /\ local' = [local EXCEPT ![r].next = i + 1]
             /\ UNCHANGED <<globals, pc, running, config, objects, posted, ghosts>>
        ELSE IF videoDecoder = 0
        THEN Throw(r, << >>)                     \* TypeError on null
        ELSE IF Len(dec[videoDecoder].queue) > QUEUE_LIMIT
        THEN \* await new Promise(r => setTimeout(r, 10))
             /\ local' = [local EXCEPT ![r].decoderStarted = TRUE]
             /\ pc' = [pc EXCEPT ![r] = "wait"]
             /\ running' = 0
             /\ UNCHANGED <<globals, config, objects, posted, ghosts>>
        ELSE IF \/ dec[videoDecoder].state # "configured"
                \/ dec[videoDecoder].keyRequired /\ L.validChunks[i].type # "key"
        THEN Throw(r, << >>)                     \* InvalidStateError / DataError
        ELSE \* decode(chunk): queued, or taken at once by an unsaturated codec
             /\ \E sync \in BOOLEAN :
                  LET first == IF dec[videoDecoder].first = << >>
                               THEN << L.validChunks[i] >>
                               ELSE dec[videoDecoder].first
                  IN dec' = [dec EXCEPT ![videoDecoder] =
                            IF sync /\ @.queue = << >>
                            THEN [@ EXCEPT !.codec = Append(@, L.validChunks[i]),
                                           !.keyRequired = FALSE, !.first = first]
                            ELSE [@ EXCEPT !.queue = Append(@, L.validChunks[i]),
                                           !.keyRequired = FALSE, !.first = first]]
             /\ local' = [local EXCEPT ![r].next = i + 1, ![r].decoderStarted = TRUE]
             /\ UNCHANGED <<globals, pc, running, config, dmx, enc, mux, posted, ghosts>>

\* the backpressure timer fires and the loop tests decodeQueueSize again
BackpressureTimer(r) ==
  /\ UNCHANGED mainThread
  /\ running = 0
  /\ pc[r] = "wait"
  /\ pc' = [pc EXCEPT ![r] = "feed"]
  /\ running' = r
  /\ UNCHANGED <<globals, config, local, objects, posted, ghosts>>

\* ------------------------------------------------------------ VideoDecoder
\* the codec takes the next queued chunk: decodeQueueSize drops by one
DecoderDequeue(d) ==
  /\ UNCHANGED mainThread
  /\ running = 0
  /\ dec[d].state = "configured"
  /\ dec[d].queue # << >>
  /\ dec' = [dec EXCEPT ![d].queue = Tail(@),
                        ![d].codec = Append(@, Head(dec[d].queue))]
  /\ UNCHANGED <<globals, pc, running, config, local, dmx, enc, mux, posted, ghosts>>

\* the percentage scaled by 1000 instead of 100
ProgressPerMille(done, total) ==
  IF total = 0 THEN 1000 ELSE (2000 * done + total) \div (2 * total)

\* Math.round((framesProcessed / totalVideoFrames) * 100)
Progress(done, total) == IF total = 0 THEN 100 ELSE (200 * done + total) \div (2 * total)

\* const newTimestamp = frame.timestamp - timestampOffset
NewTimestampUnshifted(timestamp, timestampOffset) == timestamp
NewTimestamp(timestamp, timestampOffset) == timestamp - timestampOffset

\* the callback without its pre-roll test
NeverPreRoll(timestamp, startMicro) == FALSE
\* if (frame.timestamp < startMicro)
IsPreRoll(timestamp, startMicro) == timestamp < startMicro

\* the output callback of the decoder run d made, for the next decoded frame.  It is
\* an async function: an exception in it rejects a promise nobody reads.
DecoderOutput(d) ==
  /\ UNCHANGED mainThread
  /\ running = 0
  /\ dec[d].state = "configured"
  /\ dec[d].codec # << >>
  /\ LET frame == Head(dec[d].codec)
         L == local[d]
         offset == IF L.timestampOffset = Null THEN frame.timestamp
                   ELSE L.timestampOffset
         newTimestamp == NewTimestamp(frame.timestamp, offset)
         shouldKeyFrame == (newTimestamp - L.lastKeyFrameTime) >= KEYFRAME_INTERVAL
         lastKey == IF shouldKeyFrame THEN newTimestamp ELSE L.lastKeyFrameTime
         taken == [dec EXCEPT ![d].codec = Tail(@), ![d].outputs = @ + 1]
         composited == [taken EXCEPT ![d].rendered = @ + 1, ![d].closed = @ + 1,
                                     ![d].newFrames = @ + 1]
     IN IF IsPreRoll(frame.timestamp, L.startMicro)
        THEN \* pre-roll discard: frame.close(); return
             /\ dec' = [taken EXCEPT ![d].closed = @ + 1]
             /\ UNCHANGED <<local, enc, posted, submitted>>
        ELSE IF compositor = 0
        THEN \* compositor.render: TypeError on the null compositor
             /\ dec' = taken
             /\ UNCHANGED <<local, enc, posted, submitted>>
        ELSE IF videoEncoder = 0 \/ enc[videoEncoder].state # "configured"
        THEN \* encode() throws: TypeError on null, InvalidStateError once closed
             /\ dec' = composited
             /\ local' = [local EXCEPT ![d].timestampOffset = offset,
                                       ![d].lastKeyFrameTime = lastKey]
             /\ UNCHANGED <<enc, posted, submitted>>
        ELSE /\ dec' = [composited EXCEPT ![d].newClosed = @ + 1]
             /\ enc' = [enc EXCEPT ![videoEncoder].queue =
                          Append(@, [timestamp |-> newTimestamp, key |-> shouldKeyFrame])]
             /\ submitted' = [submitted EXCEPT ![d] =
                  Append(@, [timestamp |-> newTimestamp, key |-> shouldKeyFrame,
                             source |-> frame.timestamp])]
             /\ local' = [local EXCEPT ![d].timestampOffset = offset,
                                       ![d].lastKeyFrameTime = lastKey,
                                       ![d].framesProcessed = @ + 1]
             /\ posted' =
                  IF (L.framesProcessed + 1) % PROGRESS_EVERY = 0
                  THEN Append(posted, StatusMsg(d, "Rendering",
                                 Progress(L.framesProcessed + 1, L.totalVideoFrames)))
                  ELSE posted
  /\ UNCHANGED <<globals, pc, running, config, dmx, mux, cancelled, errFired, throws,
                 cancels>>

\* the decoder reports an error while it has work: WebCodecs closes it, and the
\* error callback logs
DecoderError(d) ==
  /\ UNCHANGED mainThread
  /\ running = 0
  /\ dec[d].state = "configured"
  /\ \/ dec[d].queue # << >>
     \/ dec[d].codec # << >>
     \/ \E r \in Runs : pc[r] = "decFlush" /\ local[r].waitOn = d
  /\ dec' = CloseCodec(dec, d)
  /\ errFired' = [errFired EXCEPT ![d] = TRUE]
  /\ UNCHANGED <<globals, pc, running, config, local, dmx, enc, mux, posted,
                 cancelled, throws, cancels, submitted>>

\* ------------------------------------------------------------ VideoEncoder
\* the guard of the track addition without its `!muxerStarted`
ShouldAddTrackAlways(muxerStarted, decoderConfig) == TRUE
\* if (!muxerStarted && metadata?.decoderConfig)
ShouldAddTrack(muxerStarted, decoderConfig) == ~muxerStarted /\ decoderConfig

\* the output callback of the encoder run e made, for the next encoded chunk.  It is
\* a plain function: an exception in it reaches self.onerror, which posts an error.
EncoderOutput(e) ==
  /\ UNCHANGED mainThread
  /\ running = 0
  /\ enc[e].state = "configured"
  /\ enc[e].queue # << >>
  /\ enc' = [enc EXCEPT ![e].queue = Tail(@), ![e].outputs = @ + 1]
  /\ \E fails \in BOOLEAN :
       LET chunk == Head(enc[e].queue)
           addTrack == ShouldAddTrack(local[e].muxerStarted, enc[e].outputs = 0)
       IN /\ fails => throws < MaxThrows
          /\ IF muxer = 0
             THEN \* TypeError on the null muxer
                  /\ posted' = Append(posted, ErrorMsg(e, "onerror"))
                  /\ UNCHANGED <<local, mux, throws>>
             ELSE LET tracked == mux[muxer].videoTrack \/ addTrack
                      m1 == [mux[muxer] EXCEPT
                               !.videoTrack = tracked,
                               !.trackAdds = IF addTrack THEN @ + 1 ELSE @,
                               !.addedAtOutput = IF addTrack THEN enc[e].outputs + 1
                                                 ELSE @,
                               !.handed = @ + 1,
                               !.dropped = IF tracked THEN @ ELSE @ + 1]
                  IN /\ local' = [local EXCEPT ![e].muxerStarted = @ \/ addTrack]
                     /\ IF ~tracked
                        THEN \* addVideoChunk: if (this.videoTrackId === null) return
                             /\ mux' = [mux EXCEPT ![muxer] = m1]
                             /\ UNCHANGED <<posted, throws>>
                        ELSE IF fails
                        THEN \* file.addSample throws
                             /\ mux' = [mux EXCEPT ![muxer] = m1]
                             /\ posted' = Append(posted, ErrorMsg(e, "onerror"))
                             /\ throws' = throws + 1
                        ELSE /\ mux' = [mux EXCEPT ![muxer] =
                                         [m1 EXCEPT !.video = Append(@,
                                            [timestamp |-> chunk.timestamp,
                                             key |-> chunk.key, encoder |-> e])]]
                             /\ UNCHANGED <<posted, throws>>
  /\ UNCHANGED <<globals, pc, running, config, dmx, dec, cancelled, errFired, cancels,
                 submitted>>

\* the encoder reports an error: WebCodecs closes it; the callback rejects
\* encoderPromise, which nothing awaits
EncoderError(e) ==
  /\ UNCHANGED mainThread
  /\ running = 0
  /\ enc[e].state = "configured"
  /\ InProgress(e)
  /\ enc' = CloseCodec(enc, e)
  /\ errFired' = [errFired EXCEPT ![e] = TRUE]
  /\ UNCHANGED <<globals, pc, running, config, local, dmx, dec, mux, posted,
                 cancelled, throws, cancels, submitted>>

\* ------------------------------------------------------- flush and finish
\* await videoDecoder.flush() settles: rejected once the decoder is closed,
\* resolved once every submitted chunk has been output
DecoderFlushed(r) ==
  /\ UNCHANGED mainThread
  /\ running = 0
  /\ pc[r] = "decFlush"
  /\ LET d == local[r].waitOn
     IN IF dec[d].state # "configured"
        THEN Throw(r, << >>)
        ELSE /\ dec[d].queue = << >> /\ dec[d].codec = << >>
             /\ dec' = [dec EXCEPT ![d].keyRequired = TRUE]
             /\ pc' = [pc EXCEPT ![r] = "callEncFlush"]
             /\ running' = r
             /\ UNCHANGED <<globals, config, local, dmx, enc, mux, posted, ghosts>>

\* await videoEncoder.flush(): rejected at once unless configured
FlushEncoder(r) ==
  /\ UNCHANGED mainThread
  /\ running = r
  /\ pc[r] = "callEncFlush"
  /\ IF videoEncoder = 0 \/ enc[videoEncoder].state # "configured"
     THEN Throw(r, << >>)
     ELSE /\ local' = [local EXCEPT ![r].waitOn = videoEncoder]
          /\ pc' = [pc EXCEPT ![r] = "encFlush"]
          /\ running' = 0
          /\ UNCHANGED <<globals, config, objects, posted, ghosts>>

EncoderFlushed(r) ==
  /\ UNCHANGED mainThread
  /\ running = 0
  /\ pc[r] = "encFlush"
  /\ LET e == local[r].waitOn
     IN IF enc[e].state # "configured"
        THEN Throw(r, << >>)
        ELSE /\ enc[e].queue = << >>
             /\ pc' = [pc EXCEPT ![r] = "finish"]
             /\ running' = r
             /\ UNCHANGED <<globals, config, local, objects, posted, ghosts>>

\* the passthrough loop without its `if (newTs >= 0)`
PassedAudioUnchecked(L) ==
  IF ~L.audioConfig \/ L.timestampOffset = Null THEN << >>
  ELSE LET kept == ValidAudio(L.audioChunks, L.startMicro, L.endMicro)
       IN [i \in 1..Len(kept) |-> [timestamp |-> kept[i].timestamp - L.timestampOffset,
                                    source |-> kept[i].timestamp]]

\* the audio samples the passthrough loop hands to muxer.addAudioChunk
PassedAudio(L) ==
  IF ~L.audioConfig \/ L.timestampOffset = Null THEN << >>
  ELSE LET kept == SelectSeq(ValidAudio(L.audioChunks, L.startMicro, L.endMicro),
                             LAMBDA c : c.timestamp - L.timestampOffset >= 0)
       IN [i \in 1..Len(kept) |-> [timestamp |-> kept[i].timestamp - L.timestampOffset,
                                    source |-> kept[i].timestamp]]

\* MP4Muxer.addAudioChunk, for each chunk of the passthrough loop in turn: without
\* an audio track the call returns and the chunk is gone
addAudioChunks(m, audio) ==
  IF m.audioTrack THEN [m EXCEPT !.audio = @ \o audio]
  ELSE [m EXCEPT !.audioDropped = @ + Len(audio)]

\* audio passthrough, 'Finalizing', muxer.getBlob(), 'done', finally cleanup()
Finish(r) ==
  /\ UNCHANGED mainThread
  /\ running = r
  /\ pc[r] = "finish"
  /\ LET audio == PassedAudio(local[r])
     IN IF muxer = 0
        THEN \* TypeError on the null muxer: in addAudioChunk, else in getBlob
             IF audio # << >> THEN Throw(r, << >>)
             ELSE Throw(r, << StatusMsg(r, "Finalizing", 100) >>)
        ELSE /\ mux' = [mux EXCEPT ![muxer] = addAudioChunks(@, audio)]
             /\ posted' = posted \o << StatusMsg(r, "Finalizing", 100), DoneMsg(r) >>
             /\ cleanup
             /\ pc' = [pc EXCEPT ![r] = "done"]
             /\ running' = 0
             /\ UNCHANGED <<config, local, dmx, ghosts>>

\* ----------------------------------------------- self.onmessage: 'cancel'
HandleCancel ==
  /\ UNCHANGED mainThread
  /\ running = 0
  /\ cancels < MaxCancels
  /\ \E r \in Runs : InProgress(r)
  /\ cleanup
  /\ cancelled' = [r \in Runs |-> cancelled[r] \/ InProgress(r)]
  /\ cancels' = cancels + 1
  /\ UNCHANGED <<pc, running, config, local, dmx, mux, posted, errFired, throws,
                 submitted>>


\* ------------------------------------------------------- the worker's steps
PipelineCore(r) ==
  \/ prepareOverlays(r)
  \/ NewDemuxer(r)
  \/ load(r)
  \/ getAllVideoChunks(r)
  \/ VideoChunksResolved(r)
  \/ getAllAudioChunks(r)
  \/ AudioChunksResolved(r)
  \/ Setup(r)
  \/ Feed(r)
  \/ DecoderFlushed(r)
  \/ FlushEncoder(r)
  \/ EncoderFlushed(r)
  \/ Finish(r)

Pipeline(r) ==
  \/ PipelineCore(r)
  \/ BackpressureTimer(r)

CodecOutputs(r) ==
  \/ DecoderDequeue(r)
  \/ DecoderOutput(r)
  \/ EncoderOutput(r)

Codecs(r) ==
  \/ CodecOutputs(r)
  \/ DecoderError(r)
  \/ EncoderError(r)

\* ------------------------------------------------------- processVideoClip
MaxPosts == 3         \* messages the worker posts to one processVideoClip call

NewClip ==
  [pc |-> "idle",          \* where the async function is
   aborted |-> FALSE,      \* signal.aborted
   listening |-> FALSE,    \* the 'abort' listener is registered
   probe |-> "none",       \* what VideoEncoder.isConfigSupported answered
   worker |-> "none",      \* none, live, terminated
   inbox |-> << >>,        \* commands posted to the worker
   outbox |-> << >>,       \* worker messages not yet handled by worker.onmessage
   posts |-> 0,
   promise |-> "pending",  \* the returned promise: pending, resolved, rejected
   progress |-> Null,      \* the last value given to onProgress
   abortedPending |-> FALSE] \* the signal was raised while the promise was pending

Settle(c, how) == IF c.promise = "pending" THEN [c EXCEPT !.promise = how] ELSE c

\* worker.terminate(): the worker stops and its undelivered messages are dropped
Terminate(c) == [c EXCEPT !.worker = "terminated", !.outbox = << >>]

\* the call, through the feature detection, to the capability probe
processVideoClip ==
  /\ clip.pc = "idle"
  /\ \E webCodecs \in BOOLEAN, offscreenCanvas \in BOOLEAN :
       clip' = IF webCodecs /\ offscreenCanvas
               THEN [clip EXCEPT !.pc = "probe"]
               ELSE [Settle(clip, "rejected") EXCEPT !.pc = "returned"]
  /\ UNCHANGED <<wvars, reframeVars, units>>

\* await VideoEncoder.isConfigSupported(...) settles
isConfigSupported ==
  /\ clip.pc = "probe"
  /\ \E answer \in {"supported", "unsupported", "threw", "threwYourDevice"} :
       clip' = IF answer = "threwYourDevice"
               THEN [Settle(clip, "rejected") EXCEPT !.pc = "returned", !.probe = answer]
               ELSE \* not supported: console.warn only; other exceptions are swallowed
                    [clip EXCEPT !.pc = "fetch", !.probe = answer]
  /\ UNCHANGED <<wvars, reframeVars, units>>

\* await fetch(sourceUrl) settles
Fetched ==
  /\ clip.pc = "fetch"
  /\ \E ok \in BOOLEAN :
       clip' = IF ok THEN [clip EXCEPT !.pc = "blob"]
               ELSE [Settle(clip, "rejected") EXCEPT !.pc = "returned"]
  /\ UNCHANGED <<wvars, reframeVars, units>>

\* await response.blob() settles; then the promise executor: the worker is made,
\* the abort listener registered and the init command posted
StartWorker ==
  /\ clip.pc = "blob"
  /\ \E ok \in BOOLEAN :
       clip' = IF ok
               THEN [clip EXCEPT !.pc = "rendering", !.worker = "live",
                                 !.listening = TRUE, !.inbox = << "init" >>]
               ELSE [Settle(clip, "rejected") EXCEPT !.pc = "returned"]
  /\ UNCHANGED <<wvars, reframeVars, units>>

\* the caller raises the signal; a registered listener runs at once
Abort ==
  /\ clip.pc # "idle"
  /\ ~clip.aborted
  /\ LET c == [clip EXCEPT !.aborted = TRUE,
                           !.abortedPending = (clip.promise = "pending")]
     IN clip' = IF clip.listening
                THEN Settle(Terminate([c EXCEPT !.inbox =
                        IF clip.worker = "live" THEN Append(@, "cancel") ELSE @]),
                        "rejected")
                ELSE c
  /\ UNCHANGED <<wvars, reframeVars, units>>

Responses ==
  {[type |-> "status", progress |-> p] : p \in {0, 100}}
    \cup {[type |-> t, progress |-> 0] : t \in {"done", "error"}}

\* the worker posts a message (postResponse or self.onerror)
WorkerPosts ==
  /\ clip.worker = "live"
  /\ clip.posts < MaxPosts
  /\ \E m \in Responses :
       clip' = [clip EXCEPT !.outbox = Append(@, m), !.posts = @ + 1]
  /\ UNCHANGED <<wvars, reframeVars, units>>

\* worker.onmessage handles the next message
OnWorkerMessage ==
  /\ clip.outbox # << >>
  /\ LET m == Head(clip.outbox)
         c == [clip EXCEPT !.outbox = Tail(@)]
     IN clip' = IF m.type = "status" THEN [c EXCEPT !.progress = m.progress]
                ELSE IF m.type = "done" THEN Settle(Terminate(c), "resolved")
                ELSE Settle(Terminate(c), "rejected")
  /\ UNCHANGED <<wvars, reframeVars, units>>

\* worker.onerror: the worker script failed
OnWorkerError ==
  /\ clip.worker = "live"
  /\ clip' = Settle(Terminate(clip), "rejected")
  /\ UNCHANGED <<wvars, reframeVars, units>>

\* ------------------------------------------------- getInterpolatedReframe
\* Positions and scales are fixed-point numbers in thousandths; the timestamps of
\* this section are in ticks of 0.0001 s.
MaxKeyframes == 3     \* keyframes of the longest sequence
MaxTick == 3          \* largest keyframe timestamp (ticks)

ONE == 1000           \* 1.0
HALF == 500           \* 0.5
NEAR_IDENTICAL == 1   \* dt <= 0.0001

Positions == {0, HALF, ONE}
Scales == {ONE, 2 * ONE}

\* strictly (before), the comparison of a search that misses a keyframe at `time`
Before(timestamp, time) == timestamp < time
\* keyframes[mid].timestamp <= time
AtOrBefore(timestamp, time) == timestamp <= time

\* while (low <= high) { mid = (low + high) >>> 1; ... }, indices from 0
RECURSIVE BinarySearch(_, _, _, _, _)
BinarySearch(keyframes, time, low, high, idx) ==
  IF low > high THEN idx
  ELSE LET mid == (low + high) \div 2
       IN IF AtOrBefore(keyframes[mid + 1].timestamp, time)
          THEN BinarySearch(keyframes, time, mid + 1, high, mid)
          ELSE BinarySearch(keyframes, time, low, mid - 1, idx)

\* k.scale || 1
ScaleOr1(k) == IF k.scale = 0 THEN ONE ELSE k.scale

\* a + (b - a) * clampedT, clampedT the fraction num / den
Lerp(a, b, num, den) == a + ((b - a) * num) \div den

getInterpolatedReframe(keyframes, time) ==
  IF Len(keyframes) = 0 THEN [x |-> HALF, y |-> HALF, scale |-> ONE]
  ELSE LET idx == BinarySearch(keyframes, time, 0, Len(keyframes) - 1, 0)
           k1 == keyframes[idx + 1]
           k2 == IF idx + 2 <= Len(keyframes) THEN keyframes[idx + 2] ELSE k1
           dt == k2.timestamp - k1.timestamp
           \* clampedT = max(0, min(1, (time - k1.timestamp) / dt))
           num == IF time - k1.timestamp < 0 THEN 0
                  ELSE IF time - k1.timestamp > dt THEN dt ELSE time - k1.timestamp
       IN IF dt <= NEAR_IDENTICAL
          THEN [x |-> k1.centerX, y |-> k1.centerY, scale |-> ScaleOr1(k1)]
          ELSE [x |-> Lerp(k1.centerX, k2.centerX, num, dt),
                y |-> Lerp(k1.centerY, k2.centerY, num, dt),
                scale |-> Lerp(ScaleOr1(k1), ScaleOr1(k2), num, dt)]

\* the keyframe sequences a caller may hold: timestamps strictly increasing
Keyframes ==
  [timestamp : 0..MaxTick, centerX : Positions, centerY : {HALF - 50, HALF},
   scale : Scales]

KeyframeSeqs ==
  {kfs \in UNION {[1..n -> Keyframes] : n \in 0..MaxKeyframes} :
     \A i \in DOMAIN kfs : i > 1 => kfs[i - 1].timestamp < kfs[i].timestamp}

\* the worker's loop without its `break`: k2 ends as the last later keyframe
ScanWithoutBreak(keyframes, time, i, k1) ==
  LET upTo == {j \in i..Len(keyframes) : keyframes[j].timestamp <= time}
      later == {j \in i..Len(keyframes) : keyframes[j].timestamp > time}
      last(S, d) == IF S = {} THEN d ELSE CHOOSE j \in S : \A h \in S : h <= j
  IN << last(upTo, k1), last(later, 1) >>

\* the worker's for loop from index i (1-based), k1 as assigned so far: the indices
\* of k1 and k2 it ends with; k2 is keyframes[0] unless the loop reaches its else
RECURSIVE LinearScan(_, _, _, _)
LinearScan(keyframes, time, i, k1) ==
  IF i > Len(keyframes) THEN << k1, 1 >>
  ELSE IF keyframes[i].timestamp <= time THEN LinearScan(keyframes, time, i + 1, i)
  ELSE << k1, i >>

\* getInterpolatedReframe of the render worker
getInterpolatedReframeWorker(keyframes, time) ==
  IF Len(keyframes) = 0 THEN [x |-> HALF, y |-> HALF, scale |-> ONE]
  ELSE LET found == LinearScan(keyframes, time, 1, 1)
           k1 == keyframes[found[1]]
           k2 == keyframes[found[2]]
           dt == k2.timestamp - k1.timestamp
           num == IF time - k1.timestamp < 0 THEN 0
                  ELSE IF time - k1.timestamp > dt THEN dt ELSE time - k1.timestamp
       IN IF found[1] = found[2] \/ dt <= NEAR_IDENTICAL
          THEN [x |-> k1.centerX, y |-> k1.centerY, scale |-> ScaleOr1(k1)]
          ELSE [x |-> Lerp(k1.centerX, k2.centerX, num, dt),
                y |-> Lerp(k1.centerY, k2.centerY, num, dt),
                scale |-> Lerp(ScaleOr1(k1), ScaleOr1(k2), num, dt)]

\* the keyframe sequences of a render config: timestamps in non-decreasing order,
\* the optional scale absent (0) or set
SortedKeyframeSeqs ==
  LET kf == [timestamp : 0..MaxTick, centerX : {0, ONE}, centerY : {HALF - 50, HALF},
             scale : {0, ONE, 2 * ONE}]
  IN {kfs \in UNION {[1..n -> kf] : n \in 0..MaxKeyframes} :
        \A i \in DOMAIN kfs : i > 1 => kfs[i - 1].timestamp <= kfs[i].timestamp}

NoInterp == [keyframes |-> << >>, time |-> 0, asked |-> FALSE,
             result |-> [x |-> 0, y |-> 0, scale |-> 0],
             worker |-> [x |-> 0, y |-> 0, scale |-> 0]]

\* the preview and the render worker sample the reframe at the same time t
SampleFrame(t) ==
  /\ interp' = [interp EXCEPT
                  !.time = t, !.asked = TRUE,
                  !.result = getInterpolatedReframe(interp.keyframes, t),
                  !.worker = getInterpolatedReframeWorker(interp.keyframes, t)]
  /\ UNCHANGED <<wvars, clip, solver, scan, units>>

\* a caller (preview scrubbing, the per-frame sampling of a render) asks for time t
QueryReframe(t) ==
  /\ interp' = [interp EXCEPT !.time = t, !.asked = TRUE,
                              !.result = getInterpolatedReframe(interp.keyframes, t)]
  /\ UNCHANGED <<wvars, clip, solver, scan, units>>

\* ------------------------- analyzeVideoForReframe, phase 3: the trajectory
\* The times of this section are in ticks of 1/60 s, positions in thousandths and
\* velocities in thousandths per second.
MaxAnchors == 3       \* anchor detections handed to phase 3
MaxDuration == 5      \* longest video duration (ticks)

SIM_STEP == 2             \* 1/30 s
STEPS_PER_SECOND == 30    \* 1 / SIM_STEP
DEFAULT_OFFSET_Y == 0 - 50 \* -0.05
CUT_DISTANCE == 100       \* dist > 0.1
SMART_DISTANCE == 200     \* dist > 0.2
NonFinite == 0 - 1000000  \* NaN or an infinity: the result of dividing by a zero range

Moods == {"cinematic", "cut", "smart"}
CameraSpeeds == {"slow", "normal", "fast"}

\* let k = 5.0, d = 3.0; fast: 10, 2; slow: 2, 4
Stiffness(cameraSpeed) ==
  CASE cameraSpeed = "fast" -> 10 [] cameraSpeed = "slow" -> 2 [] OTHER -> 5
Damping(cameraSpeed) ==
  CASE cameraSpeed = "fast" -> 2 [] cameraSpeed = "slow" -> 4 [] OTHER -> 3

Abs(a) == IF a < 0 THEN 0 - a ELSE a
\* a / b rounded towards zero
Quot(a, b) == IF a < 0 THEN 0 - ((0 - a) \div b) ELSE a \div b

\* the zero-anchor answer without the vertical bias
CentredKeyframes(duration) ==
  << [timestamp |-> 0, centerX |-> HALF, centerY |-> HALF, scale |-> ONE],
     [timestamp |-> duration, centerX |-> HALF, centerY |-> HALF, scale |-> ONE] >>

\* if (anchorPoints.length === 0) { push(t = 0); push(t = duration) }
DegenerateKeyframes(duration) ==
  << [timestamp |-> 0, centerX |-> HALF, centerY |-> HALF + DEFAULT_OFFSET_Y,
      scale |-> ONE],
     [timestamp |-> duration, centerX |-> HALF, centerY |-> HALF + DEFAULT_OFFSET_Y,
      scale |-> ONE] >>

\* while (currentAnchorIdx < length - 1 && anchorPoints[currentAnchorIdx + 1].timestamp < t)
\*   currentAnchorIdx++          (indices from 1 here)
RECURSIVE AdvanceAnchor(_, _, _)
AdvanceAnchor(anchors, idx, t) ==
  IF idx < Len(anchors) /\ anchors[idx + 1].timestamp < t
  THEN AdvanceAnchor(anchors, idx + 1, t) ELSE idx

\* currA.centerX + (nextA.centerX - currA.centerX) * ((t - currA.timestamp) / range)
Interpolated(currA, nextA, t) ==
  LET range == nextA.timestamp - currA.timestamp
  IN IF range = 0 THEN NonFinite
     ELSE currA.centerX
            + Quot((nextA.centerX - currA.centerX) * (t - currA.timestamp), range)

\* the pan of the interpolating moods in place of the snap
Panned(currA, nextA, t) == Interpolated(currA, nextA, t)

\* t >= currA.timestamp + range / 2 ? nextA.centerX : currA.centerX
Snapped(currA, nextA, t) ==
  IF 2 * t >= 2 * currA.timestamp + (nextA.timestamp - currA.timestamp)
  THEN nextA.centerX ELSE currA.centerX

\* the target of one simulation step and whether the step is a hard cut
Target(anchors, idx, t, mood) ==
  LET currA == anchors[idx]
      last == idx = Len(anchors)              \* nextA = anchorPoints[idx + 1] || currA
      nextA == IF last THEN currA ELSE anchors[idx + 1]
      dist == Abs(nextA.centerX - currA.centerX)
  IN IF last THEN [rawTarget |-> currA.centerX, isCut |-> FALSE]
     ELSE IF mood = "cut"
     THEN [rawTarget |-> Snapped(currA, nextA, t), isCut |-> dist > CUT_DISTANCE]
     ELSE IF mood = "smart" /\ dist > SMART_DISTANCE
     THEN [rawTarget |-> Snapped(currA, nextA, t), isCut |-> TRUE]
     ELSE [rawTarget |-> Interpolated(currA, nextA, t), isCut |-> FALSE]

\* Math.max(0, Math.min(1, camPos))
Clamp01(camPos) ==
  IF camPos = NonFinite THEN NonFinite
  ELSE IF camPos < 0 THEN 0 ELSE IF camPos > ONE THEN ONE ELSE camPos

Anchors == [timestamp : 0..MaxDuration, centerX : {0, HALF - 50, HALF, ONE}]

\* anchorPoints after the sort, with distinct timestamps
AnchorSeqs ==
  {as \in UNION {[1..n -> Anchors] : n \in 0..MaxAnchors} :
     \A i \in DOMAIN as : i > 1 => as[i - 1].timestamp < as[i].timestamp}

NoSolver ==
  [pc |-> "idle", anchorPoints |-> << >>, duration |-> 0, mood |-> "smart",
   cameraSpeed |-> "normal", t |-> 0, camPos |-> 0, camVel |-> 0,
   currentAnchorIdx |-> 1, rawTarget |-> 0, isCut |-> FALSE,
   finalKeyframes |-> << >>]

\* phase 3 begins: the degenerate answer, or the simulation's initial state
StartPhase3 ==
  /\ solver.pc = "phase3"
  /\ solver' =
       IF Len(solver.anchorPoints) = 0
       THEN [solver EXCEPT !.finalKeyframes = DegenerateKeyframes(solver.duration),
                           !.pc = "resolve"]
       ELSE [solver EXCEPT !.camPos = solver.anchorPoints[1].centerX,
                           !.camVel = 0, !.t = 0, !.currentAnchorIdx = 1,
                           !.pc = "loop"]
  /\ UNCHANGED <<wvars, clip, interp, scan, units>>

\* one iteration of for (let t = 0; t <= duration; t += SIM_STEP)
SimStep ==
  /\ solver.pc = "loop"
  /\ solver.t <= solver.duration
  /\ LET idx == AdvanceAnchor(solver.anchorPoints, solver.currentAnchorIdx, solver.t)
         target == Target(solver.anchorPoints, idx, solver.t, solver.mood)
         k == Stiffness(solver.cameraSpeed)
         d == Damping(solver.cameraSpeed)
         broken == NonFinite \in {target.rawTarget, solver.camPos, solver.camVel}
         force == (target.rawTarget - solver.camPos) * k - solver.camVel * d
         vel == IF target.isCut THEN 0
                ELSE IF broken THEN NonFinite
                ELSE solver.camVel + Quot(force, STEPS_PER_SECOND)
         pos == IF target.isCut THEN target.rawTarget
                ELSE IF broken THEN NonFinite
                ELSE solver.camPos + Quot(vel, STEPS_PER_SECOND)
     IN solver' = [solver EXCEPT
          !.currentAnchorIdx = idx,
          !.rawTarget = target.rawTarget, !.isCut = target.isCut,
          !.camVel = vel, !.camPos = Clamp01(pos),
          !.finalKeyframes = Append(@, [timestamp |-> solver.t,
                                        centerX |-> Clamp01(pos),
                                        centerY |-> HALF + DEFAULT_OFFSET_Y,
                                        scale |-> ONE]),
          !.t = @ + SIM_STEP]
  /\ UNCHANGED <<wvars, clip, interp, scan, units>>

\* the loop ends (or the degenerate answer is ready): resolve(finalKeyframes)
ResolveKeyframes ==
  /\ \/ solver.pc = "resolve"
     \/ solver.pc = "loop" /\ solver.t > solver.duration
  /\ solver' = [solver EXCEPT !.pc = "resolved"]
  /\ UNCHANGED <<wvars, clip, interp, scan, units>>

\* ------------------ analyzeVideoForReframe, phases 1 and 2: shots and anchors
\* The times of this section are in ticks of 1/1280 s, so that every midpoint the
\* adaptive scan computes is a whole number of ticks, as (t1 + t2) / 2 is exact in
\* binary floating point.  Pixel differences are in thousandths.
MaxSamples == 2       \* frames the phase-1 loop looks at
MaxFaces == 2         \* probes at which the detector finds a face

CUT_THRESHOLD == 250      \* 0.25
STATIC_THRESHOLD == 30    \* 0.03
SPLIT_DISTANCE == 100     \* dx > 0.1
FORCE_DISTANCE == 300     \* dx > 0.3
EARLY_STOP_DEPTH == 2     \* depth > 2

ScanModes == {"faster", "normal", "perfect"}

PHASE1_INTERVAL(scanMode) ==
  CASE scanMode = "faster" -> 3840 [] scanMode = "perfect" -> 640 [] OTHER -> 1280

RECURSION_STOP_THRESHOLD(scanMode) ==
  CASE scanMode = "faster" -> 2560 [] scanMode = "perfect" -> 256 [] OTHER -> 640

\* the durations looked at: up to MaxSamples phase-1 intervals, in half intervals
ScanDurations(scanMode) ==
  {j * (PHASE1_INTERVAL(scanMode) \div 2) : j \in 1..(2 * MaxSamples)}

\* calculatePixelDiff: one value of each class the thresholds tell apart
Diffs == {0, 2 * STATIC_THRESHOLD, 4 * STATIC_THRESHOLD, 2 * CUT_THRESHOLD}

NoDetection == [found |-> FALSE, timestamp |-> 0, centerX |-> 0]

\* what detectFrame(time) may answer: null, or the best face at that time
Detections(time) ==
  {NoDetection} \cup
    {[found |-> TRUE, timestamp |-> time, centerX |-> x] : x \in {200, 400, 800}}

NoScan ==
  [pc |-> "idle", scanMode |-> "normal", duration |-> 0, echoCtx |-> TRUE,
   t |-> 0, lastPixels |-> FALSE, lastTime |-> 0, shotStart |-> 0,
   isCurrentShotStatic |-> TRUE, shots |-> << >>, activityMap |-> << >>,
   shot |-> 1, stack |-> << >>, anchorPoints |-> << >>,
   calls |-> << >>, probes |-> << >>]   \* calls, probes: what processSegment did

Faces(sc) == Cardinality({i \in DOMAIN sc.anchorPoints : sc.anchorPoints[i].found})

\* the answers left to the detector
Answers(sc, time) ==
  IF Faces(sc) < MaxFaces THEN Detections(time) ELSE {NoDetection}

\* one pass of the visual echo loop: for (let t = 0; t < duration; t += PHASE1_INTERVAL)
VisualEcho ==
  /\ scan.pc = "phase1"
  /\ scan.t < scan.duration
  /\ \E diff \in Diffs :
       LET compared == scan.echoCtx /\ scan.lastPixels
           cut == compared /\ diff > CUT_THRESHOLD
       IN scan' = [scan EXCEPT
            !.activityMap = IF compared THEN Append(@, [t |-> scan.t, diff |-> diff])
                            ELSE @,
            !.shots = IF cut
                      THEN Append(@, [start |-> scan.shotStart, end |-> scan.lastTime,
                                      isStatic |-> scan.isCurrentShotStatic])
                      ELSE @,
            !.shotStart = IF cut THEN scan.t ELSE @,
            !.isCurrentShotStatic =
                IF cut THEN TRUE
                ELSE IF compared /\ diff > STATIC_THRESHOLD THEN FALSE ELSE @,
            !.lastPixels = scan.echoCtx,
            !.lastTime = scan.t,
            !.t = @ + PHASE1_INTERVAL(scan.scanMode)]
  /\ UNCHANGED <<wvars, clip, interp, solver, units>>

\* the loop ends: shots.push({ start: shotStart, end: duration, ... })
EndPhase1 ==
  /\ scan.pc = "phase1"
  /\ scan.t >= scan.duration
  /\ scan' = [scan EXCEPT
       !.shots = Append(@, [start |-> scan.shotStart, end |-> scan.duration,
                            isStatic |-> scan.isCurrentShotStatic]),
       !.shot = 1, !.pc = "shots"]
  /\ UNCHANGED <<wvars, clip, interp, solver, units>>

\* const mid = (t1 + t2) / 2, off towards t1
QuarterPoint(t1, t2) == t1 + (t2 - t1) \div 4
\* const mid = (t1 + t2) / 2
Midpoint(t1, t2) == (t1 + t2) \div 2

\* if (dt < RECURSION_STOP_THRESHOLD) return
TooNarrow(dt, scanMode) == dt < RECURSION_STOP_THRESHOLD(scanMode)

\* a call of processSegment, about to run its first statement
Call(t1, t2, d1, d2, depth) ==
  [t1 |-> t1, t2 |-> t2, d1 |-> d1, d2 |-> d2, depth |-> depth,
   at |-> "enter", mid |-> 0, dMid |-> NoDetection]

CallRecord(frame, callerWidth) ==
  [t1 |-> frame.t1, t2 |-> frame.t2, depth |-> frame.depth, caller |-> callerWidth]

\* a call returns: its caller goes on to its second recursive call, or returns too
RECURSIVE Return(_)
Return(sc) ==
  IF sc.stack = << >> THEN sc
  ELSE LET n == Len(sc.stack)
           top == sc.stack[n]
           right == Call(top.mid, top.t2, top.dMid, top.d2, top.depth + 1)
       IN IF top.at = "left"
          THEN [sc EXCEPT
                  !.stack = SubSeq(sc.stack, 1, n - 1)
                              \o << [top EXCEPT !.at = "right"], right >>,
                  !.calls = Append(@, CallRecord(right, top.t2 - top.t1))]
          ELSE Return([sc EXCEPT !.stack = SubSeq(sc.stack, 1, n - 1)])

\* after a return: back in the shot loop once the outermost call has returned
Returned(sc) ==
  LET after == Return([sc EXCEPT !.stack = SubSeq(sc.stack, 1, Len(sc.stack) - 1)])
  IN IF after.stack = << >>
     THEN [after EXCEPT !.shot = @ + 1, !.pc = "shots"]
     ELSE after

\* for (const [t, diff] of activityMap) if (t > t1 && t < t2) maxActivity = max(...)
MaxActivity(activityMap, t1, t2) ==
  LET inside == {activityMap[i].diff : i \in {j \in DOMAIN activityMap :
                    activityMap[j].t > t1 /\ activityMap[j].t < t2}}
  IN IF inside = {} THEN 0 ELSE CHOOSE m \in inside : \A d \in inside : d <= m

\* checks 1 to 3 of processSegment
Split(frame, activityMap) ==
  LET d1 == frame.d1
      d2 == frame.d2
      dx == Abs(d1.centerX - d2.centerX)
      mismatch == d1.found # d2.found
      moved == d1.found /\ d2.found /\ dx > SPLIT_DISTANCE
      active == MaxActivity(activityMap, frame.t1, frame.t2) > STATIC_THRESHOLD * 3
  IN [needsSplit |-> mismatch \/ moved \/ active,
      forceSplit |-> mismatch \/ (d1.found /\ d2.found /\ dx > FORCE_DISTANCE)]

\* the shot loop: detectFrame(shot.start), detectFrame(shot.end), then the first
\* processSegment call unless the shot is static under 'faster'
ProcessShot ==
  /\ scan.pc = "shots"
  /\ scan.shot <= Len(scan.shots)
  /\ LET shot == scan.shots[scan.shot]
     IN \E aborted \in BOOLEAN :
        \E startDet \in Answers(scan, shot.start) :
          LET sc1 == [scan EXCEPT !.anchorPoints =
                        IF startDet.found THEN Append(@, startDet) ELSE @]
          IN \E endDet \in Answers(sc1, shot.end) :
            LET sc2 == [sc1 EXCEPT !.anchorPoints =
                          IF endDet.found THEN Append(@, endDet) ELSE @]
                root == Call(shot.start, shot.end, startDet, endDet, 0)
            IN scan' =
                 IF aborted THEN [scan EXCEPT !.pc = "rejected"]
                 ELSE IF shot.isStatic /\ scan.scanMode = "faster"
                 THEN [sc2 EXCEPT !.shot = @ + 1]
                 ELSE [sc2 EXCEPT !.stack = << root >>, !.pc = "segment",
                                  !.calls = Append(@, CallRecord(root, 0))]
  /\ UNCHANGED <<wvars, clip, interp, solver, units>>

\* processSegment from its first statement to `await detectFrame(mid)` or its return
processSegment ==
  /\ scan.pc = "segment"
  /\ LET n == Len(scan.stack)
         top == scan.stack[n]
     IN /\ top.at = "enter"
        /\ scan' =
             IF TooNarrow(top.t2 - top.t1, scan.scanMode) THEN Returned(scan)
             ELSE IF ~Split(top, scan.activityMap).needsSplit THEN Returned(scan)
             ELSE [scan EXCEPT
                     !.stack[n].at = "probe",
                     !.stack[n].mid = Midpoint(top.t1, top.t2),
                     !.probes = Append(@, [t1 |-> top.t1, t2 |-> top.t2,
                                           mid |-> Midpoint(top.t1, top.t2)])]
  /\ UNCHANGED <<wvars, clip, interp, solver, units>>

\* detectFrame(mid) settles; processSegment goes on to its first recursive call,
\* or stops early
detectFrame ==
  /\ scan.pc = "segment"
  /\ LET n == Len(scan.stack)
         top == scan.stack[n]
     IN /\ top.at = "probe"
        /\ \E aborted \in BOOLEAN : \E dMid \in Answers(scan, top.mid) :
             LET sc == [scan EXCEPT !.anchorPoints =
                          IF dMid.found THEN Append(@, dMid) ELSE @]
                 left == Call(top.t1, top.mid, top.d1, dMid, top.depth + 1)
             IN scan' =
                  IF aborted THEN [scan EXCEPT !.pc = "rejected"]
                  ELSE IF /\ ~Split(top, scan.activityMap).forceSplit
                          /\ top.depth > EARLY_STOP_DEPTH
                          /\ scan.scanMode = "faster"
                  THEN Returned(sc)
                  ELSE [sc EXCEPT
                          !.stack = SubSeq(sc.stack, 1, n - 1)
                             \o << [top EXCEPT !.at = "left", !.dMid = dMid], left >>,
                          !.calls = Append(@, CallRecord(left, top.t2 - top.t1))]
  /\ UNCHANGED <<wvars, clip, interp, solver, units>>

\* anchorPoints.sort((a, b) => a.timestamp - b.timestamp): a stable insertion
RECURSIVE Insert(_, _)
Insert(sorted, a) ==
  IF sorted = << >> THEN << a >>
  ELSE IF sorted[Len(sorted)].timestamp <= a.timestamp THEN Append(sorted, a)
  ELSE Append(Insert(SubSeq(sorted, 1, Len(sorted) - 1), a), sorted[Len(sorted)])

RECURSIVE SortByTimestamp(_)
SortByTimestamp(as) ==
  IF as = << >> THEN << >>
  ELSE Insert(SortByTimestamp(SubSeq(as, 1, Len(as) - 1)), as[Len(as)])

\* every shot is processed: the anchors are sorted and phase 3 follows
EndPhase2 ==
  /\ scan.pc = "shots"
  /\ scan.shot > Len(scan.shots)
  /\ scan' = [scan EXCEPT !.anchorPoints = SortByTimestamp(@), !.pc = "phase3"]
  /\ UNCHANGED <<wvars, clip, interp, solver, units>>

\* ---------------------------------------------------------- specifications

\* ---------------------------------------------------- sample extraction
\* One call of MP4Demuxer.getAllVideoChunks or getAllAudioChunks on a loaded file.
\* MP4Box calls file.onSamples with batches of the track's samples, the first of
\* them possibly inside file.start(); the 100 ms interval timer fires between them.
MaxTrackSamples == 6  \* samples of the longest track

TrackKinds == {"video", "audio"}

\* chunks and lastCount are the closure's chunks.length and lastCount; pending the
\* samples MP4Box has yet to deliver; resolvedWith the length of the array the
\* promise resolved with; late the samples delivered after that
NoExtraction ==
  [pc |-> "idle", kind |-> "video", track |-> FALSE, total |-> 0, pending |-> 0,
   chunks |-> 0, lastCount |-> 0, resolvedWith |-> 0, late |-> 0]

\* if (chunks.length > 0 && chunks.length === lastCount)
LooksDone(chunks, lastCount) == chunks > 0 /\ chunks = lastCount

\* getAllVideoChunks() / getAllAudioChunks() up to the return of file.start()
getAllChunks(kind, track, n) ==
  /\ ext.pc = "idle"
  /\ ~track => n = 0
  /\ IF ~track
     THEN \* if (!this.videoTrack) { resolve([]); return; }
          ext' = [NoExtraction EXCEPT !.pc = "resolved", !.kind = kind]
     ELSE \E first \in 0..n :
          ext' = [NoExtraction EXCEPT !.pc = "extracting", !.kind = kind,
                                      !.track = TRUE, !.total = n,
                                      !.pending = n - first, !.chunks = first]
  /\ UNCHANGED <<wvars, clip, reframeVars, crop>>

\* this.file.onSamples = (id, user, samples) => { ... chunks.push(...) }
onSamples(k) ==
  /\ ext.pc \in {"extracting", "resolved"}
  /\ k <= ext.pending
  /\ ext' = [ext EXCEPT !.pending = @ - k, !.chunks = @ + k,
                        !.late = IF ext.pc = "resolved" THEN @ + k ELSE @]
  /\ UNCHANGED <<wvars, clip, reframeVars, crop>>

\* the callback of setInterval(..., 100)
Poll ==
  /\ ext.pc = "extracting"
  /\ IF LooksDone(ext.chunks, ext.lastCount)
     THEN \* clearInterval(check); resolve(chunks)
          ext' = [ext EXCEPT !.pc = "resolved", !.resolvedWith = ext.chunks]
     ELSE ext' = [ext EXCEPT !.lastCount = ext.chunks]
  /\ UNCHANGED <<wvars, clip, reframeVars, crop>>

\* ------------------------------------------------------ Compositor.render
\* Sizes and offsets are fractions of the source texture, in thousandths.
MaxRatio == 2         \* widest and tallest aspect ratio, as MaxRatio : 1

\* width : height of a frame or canvas
Ratios == {<<1, 1>>, <<MaxRatio, 1>>, <<1, MaxRatio>>}

\* the camera centres and zoom levels a reframe may hold
Centres == {0, HALF \div 2, HALF + DEFAULT_OFFSET_Y, HALF, ONE}
Zooms == {ONE, 2 * ONE}

\* if (srcRatio > tgtRatio) { h = 1.0; w = tgtRatio / srcRatio; }
\* else { w = 1.0; h = srcRatio / tgtRatio; }      then w /= scale; h /= scale
CropSize(src, tgt, scale) ==
  LET wider == src[1] * tgt[2] > tgt[1] * src[2]       \* srcRatio > tgtRatio
      w == IF wider THEN (ONE * tgt[1] * src[2]) \div (tgt[2] * src[1]) ELSE ONE
      h == IF wider THEN ONE ELSE (ONE * src[1] * tgt[2]) \div (src[2] * tgt[1])
  IN [w |-> (w * ONE) \div scale, h |-> (h * ONE) \div scale]

\* the frames and canvases whose crop is a whole number of thousandths, halved too
RatioPairs ==
  {p \in Ratios \X Ratios :
     \A z \in Zooms : CropSize(p[1], p[2], z).w % 2 = 0 /\ CropSize(p[1], p[2], z).h % 2 = 0}

NoCrop ==
  [rendered |-> FALSE, src |-> <<1, 1>>, tgt |-> <<1, 1>>, x |-> HALF, y |-> HALF,
   scale |-> ONE, w |-> ONE, h |-> ONE, ox |-> 0, oy |-> 0]

\* pass 1 of Compositor.render(frame, reframeConfig): the cropScale and cropOffset
\* uniforms.  const ox = cx - (w / 2); const oy = cy - (h / 2)
render(src, tgt, x, y, scale) ==
  /\ LET size == CropSize(src, tgt, scale)
     IN crop' = [rendered |-> TRUE, src |-> src, tgt |-> tgt, x |-> x, y |-> y,
                 scale |-> scale, w |-> size.w, h |-> size.h,
                 ox |-> x - size.w \div 2, oy |-> y - size.h \div 2]
  /\ UNCHANGED <<wvars, clip, reframeVars, ext>>

vars == <<wvars, clip, reframeVars, units>>

InitUnits == ext = NoExtraction /\ crop = NoCrop

Init ==
  /\ WorkerInit /\ InitUnits /\ clip = NewClip
  /\ interp = NoInterp /\ solver = NoSolver /\ scan = NoScan

\* One worker, one init command: what processVideoClip sends.
Next ==
  \/ \E c \in Configs : HandleInit(1, c)
  \/ Pipeline(1)
  \/ Codecs(1)
  \/ HandleCancel

Spec == Init /\ [][Next]_vars

\* A worker that is sent init commands while a run may be in progress.  The
\* sources have one sample, so the decode queue never passes QUEUE_LIMIT, and the
\* codecs report no errors.
SharedConfigs ==
  {c \in ConfigsOf({1}, {0}) : c.endTime = 0 /\ c.src.firstKey = 1}

NextRuns ==
  \/ \E r \in Runs, c \in SharedConfigs : HandleInit(r, c)
  \/ \E r \in Runs : PipelineCore(r)
  \/ \E r \in Runs : CodecOutputs(r)
  \/ HandleCancel

SpecRuns == Init /\ [][NextRuns]_vars

\* One run on a source long enough for the decoder callback to report progress
\* (every PROGRESS_EVERY frames), trimmed at the start or not.
LongChunks == 16      \* video samples of the long source

LongConfigs ==
  {c \in ConfigsOf({LongChunks}, {0, MaxStartSec}) :
      /\ c.endTime = 0 /\ c.overlays = 0
      /\ c.src.firstKey = 1 /\ c.src.step = 1 /\ ~c.src.hasAudio}

NextProgress ==
  \/ \E c \in LongConfigs : HandleInit(1, c)
  \/ NewDemuxer(1)
  \/ load(1)
  \/ getAllVideoChunks(1)
  \/ VideoChunksResolved(1)
  \/ getAllAudioChunks(1)
  \/ Setup(1)
  \/ Feed(1)
  \/ BackpressureTimer(1)
  \/ DecoderFlushed(1)
  \/ FlushEncoder(1)
  \/ EncoderFlushed(1)
  \/ Finish(1)
  \/ Codecs(1)
  \/ HandleCancel

SpecProgress == Init /\ [][NextProgress]_vars

\* getInterpolatedReframe asked, at any times in any order, about any sequence.
InitInterp ==
  /\ WorkerInit /\ InitUnits /\ clip = NewClip /\ solver = NoSolver /\ scan = NoScan
  /\ \E kfs \in KeyframeSeqs : interp = [NoInterp EXCEPT !.keyframes = kfs]

NextInterp == \E t \in 0..(MaxTick + 1) : QueryReframe(t)

SpecInterp == InitInterp /\ [][NextInterp]_vars

\* The preview's and the worker's getInterpolatedReframe on any sorted keyframe
\* sequence and any time.
InitWysiwyg ==
  /\ WorkerInit /\ InitUnits /\ clip = NewClip /\ solver = NoSolver /\ scan = NoScan
  /\ \E kfs \in SortedKeyframeSeqs : interp = [NoInterp EXCEPT !.keyframes = kfs]

NextWysiwyg == \E t \in 0..(MaxTick + 1) : SampleFrame(t)

SpecWysiwyg == InitWysiwyg /\ [][NextWysiwyg]_vars

\* Compositor.render on any frame, canvas and reframe.
NextCrop ==
  \E p \in RatioPairs, x \in Centres, y \in Centres, scale \in Zooms :
    render(p[1], p[2], x, y, scale)

SpecCrop == Init /\ [][NextCrop]_vars

\* One extraction of a track of any length, delivered in any batches.  The interval
\* timer keeps firing and MP4Box delivers what it has, so a step that can be taken
\* is taken in the end.
NextExtract ==
  \/ \E kind \in TrackKinds, track \in BOOLEAN, n \in 0..MaxTrackSamples :
       getAllChunks(kind, track, n)
  \/ \E k \in 1..MaxTrackSamples : onSamples(k)
  \/ Poll

SpecExtract == Init /\ [][NextExtract]_vars /\ WF_vars(NextExtract)

\* Phase 3 of analyzeVideoForReframe on any anchors, duration and camera settings.
InitSolver ==
  /\ WorkerInit /\ InitUnits /\ clip = NewClip /\ interp = NoInterp /\ scan = NoScan
  /\ \E as \in AnchorSeqs, dur \in 1..MaxDuration, m \in Moods, sp \in CameraSpeeds :
       solver = [NoSolver EXCEPT !.pc = "phase3", !.anchorPoints = as,
                                 !.duration = dur, !.mood = m, !.cameraSpeed = sp]

NextSolver ==
  \/ StartPhase3
  \/ SimStep
  \/ ResolveKeyframes

SpecSolver == InitSolver /\ [][NextSolver]_vars

\* Phases 1 and 2 of analyzeVideoForReframe on any duration, scan mode, pixel
\* differences and detector answers.  Every await of the scan settles (a seek ends,
\* a timer fires), so the scan is never stopped for ever while it has a step to take.
InitScan ==
  /\ WorkerInit /\ InitUnits /\ clip = NewClip /\ interp = NoInterp /\ solver = NoSolver
  /\ \E m \in ScanModes, echo \in BOOLEAN :
       \E dur \in ScanDurations(m) :
         scan = [NoScan EXCEPT !.pc = "phase1", !.scanMode = m,
                               !.duration = dur, !.echoCtx = echo]

NextScan ==
  \/ VisualEcho
  \/ EndPhase1
  \/ ProcessShot
  \/ processSegment
  \/ detectFrame
  \/ EndPhase2

SpecScan == InitScan /\ [][NextScan]_vars /\ WF_vars(NextScan)

\* One processVideoClip call against a worker that may post any message.
NextClip ==
  \/ processVideoClip
  \/ isConfigSupported
  \/ Fetched
  \/ StartWorker
  \/ Abort
  \/ WorkerPosts
  \/ OnWorkerMessage
  \/ OnWorkerError

SpecClip == Init /\ [][NextClip]_vars


\* ------------------------------------------------------------------ claims
Terminal(m) == m.type \in {"done", "error"}
Ended(r) == pc[r] \in {"done", "failed"}
PostedBy(r, types) == {i \in DOMAIN posted : posted[i].run = r /\ posted[i].type \in types}

\* C1: a run that is not cancelled posts exactly one terminal message, one done or
\* one error, never both and never two, and no status message after it; also when
\* an encoder or decoder output callback throws while startPipeline keeps running.
C1_ExactlyOneTerminal ==
  \A r \in Runs :
    ~cancelled[r] =>
      /\ Cardinality(PostedBy(r, {"done", "error"})) <= 1
      /\ Ended(r) => Cardinality(PostedBy(r, {"done", "error"})) = 1
      /\ \A i \in PostedBy(r, {"done", "error"}), j \in PostedBy(r, {"status"}) : j < i

\* C2: once the worker has handled a cancel command during a run, at whatever
\* suspension point, no done message is posted for that run.
C2_NoDoneAfterCancel ==
  \A i \in DOMAIN posted : posted[i].type = "done" => ~posted[i].afterCancel

\* C3: cancel is silent: once the worker has handled a cancel command during a run,
\* the run posts neither done nor error.
C3_CancelIsSilent ==
  \A i \in DOMAIN posted : posted[i].afterCancel => ~Terminal(posted[i])

\* C5: at every point of a run, at most 5 chunks have been submitted to the decoder
\* without their frame having been handed on to the encoder, and the feed loop has
\* submitted a chunk only with the decoder's pending queue below the bound.
InFlight(d) == Len(dec[d].queue) + Len(dec[d].codec)

C5_BackpressureBound ==
  \A d \in Runs : InFlight(d) <= QUEUE_LIMIT /\ Len(dec[d].queue) <= QUEUE_LIMIT

\* C6: whenever the decoder's or the encoder's error callback has fired during a
\* run, the run ends with a single error message and never with done.
C6_CodecErrorIsFatal ==
  \A r \in Runs :
    errFired[r] =>
      /\ PostedBy(r, {"done"}) = {}
      /\ Cardinality(PostedBy(r, {"error"})) <= 1
      /\ Ended(r) => Cardinality(PostedBy(r, {"error"})) = 1

\* C7: a run posts done only if the output video track was registered with the muxer
\* and at least one video sample was written to it.
C7_NoPartialOutput ==
  \A i \in DOMAIN posted :
    posted[i].type = "done" => posted[i].track /\ posted[i].samples >= 1

\* C8: when a run fails mid-render, its decoder and encoder are closed and the
\* worker's references cleared before the error message is posted.
C8_ReleaseBeforeReport ==
  \A i \in DOMAIN posted :
    (posted[i].type = "error" /\ posted[i].via = "pipeline" /\ posted[i].midRender)
      => posted[i].released

\* C10: while a run is in progress, the demuxer, muxer, compositor, decoder and
\* encoder it made are not replaced by another run's, and no encoder output of one
\* run is appended to the muxer of another.
Made(r, what) ==
  CASE what = "demuxer" -> pc[r] \notin {"idle", "overlays", "newDemuxer"}
    [] OTHER -> pc[r] \in {"feed", "wait", "decFlush", "callEncFlush", "encFlush", "finish"}

C10_RunsShareNothing ==
  /\ \A r \in Runs :
       /\ (InProgress(r) /\ Made(r, "demuxer")) => demuxer \in {0, r}
       /\ (InProgress(r) /\ Made(r, "rest")) =>
             /\ muxer \in {0, r} /\ compositor \in {0, r}
             /\ videoDecoder \in {0, r} /\ videoEncoder \in {0, r}
  /\ \A m \in Runs : \A i \in DOMAIN mux[m].video : mux[m].video[i].encoder = m

\* C4: if the caller's abort signal is raised at any moment before the returned
\* promise settles, the promise never resolves with an output blob.
C4_AbortHonoured == clip.abortedPending => clip.promise # "resolved"

\* C9: when isConfigSupported reports the configuration as not supported, no worker
\* is created and no init command is sent.
C9_ProbeIsFatal ==
  clip.probe = "unsupported" => (clip.worker = "none" /\ clip.inbox = << >>)

\* C11: the first frame given to the encoder is flagged as keyframe, a later one
\* exactly when its timestamp is at least KEYFRAME_INTERVAL after the last flagged
\* frame's; so no delta frame lies KEYFRAME_INTERVAL or more after the preceding
\* keyframe, and the keyframes number at least floor(output duration / 2,000,000).
RECURSIVE LastKey(_, _)
LastKey(frames, i) ==
  IF i = 0 THEN 0 - KEYFRAME_INTERVAL
  ELSE IF frames[i].key THEN frames[i].timestamp ELSE LastKey(frames, i - 1)

KeyFrames(frames) == {i \in DOMAIN frames : frames[i].key}

FlaggedByRule(frames) ==
  \A i \in DOMAIN frames :
    /\ frames[i].key <=>
          (frames[i].timestamp - LastKey(frames, i - 1) >= KEYFRAME_INTERVAL)
    /\ i = 1 => frames[i].key

OutputDuration(frames) ==
  IF frames = << >> THEN 0 ELSE frames[Len(frames)].timestamp - frames[1].timestamp

C11_GopCeiling ==
  \A r \in Runs :
    /\ FlaggedByRule(submitted[r])
    /\ Cardinality(KeyFrames(submitted[r]))
          >= OutputDuration(submitted[r]) \div KEYFRAME_INTERVAL

\* the flagging rule alone, which the decoder output callback does keep
GopFlaggingRule == \A r \in Runs : FlaggedByRule(submitted[r])

\* C12: every frame given to the encoder carries its source timestamp minus the
\* timestamp of the first retained frame: the first encoded timestamp is 0, none is
\* negative, and, the decoder putting frames out in increasing timestamp order, the
\* encoded timestamps increase strictly.
C12_VideoRetimestamped ==
  \A r \in Runs :
    LET frames == submitted[r]
    IN frames # << >> =>
         /\ local[r].timestampOffset = frames[1].source
         /\ frames[1].timestamp = 0
         /\ \A i \in DOMAIN frames :
              /\ frames[i].timestamp = frames[i].source - frames[1].source
              /\ frames[i].timestamp >= 0
              /\ i > 1 => frames[i].timestamp > frames[i - 1].timestamp

\* frames were encoded after a pre-roll discard: the offset is not zero
C12_Witness ==
  \E r \in Runs :
    /\ Len(submitted[r]) >= 2
    /\ submitted[r][1].source > 0
    /\ submitted[r][2].timestamp > 0

\* C13: every audio sample appended to the muxer has a source timestamp within the
\* trim range and carries that timestamp minus the offset applied to video, the first
\* retained video frame's timestamp; a sample whose shifted timestamp would be
\* negative is never appended.
C13_AudioInSync ==
  \A r \in Runs : \A i \in DOMAIN mux[r].audio :
    LET a == mux[r].audio[i]
    IN /\ a.source >= local[r].startMicro /\ a.source <= local[r].endMicro
       /\ submitted[r] # << >> /\ local[r].timestampOffset = submitted[r][1].source
       /\ a.timestamp = a.source - local[r].timestampOffset
       /\ a.timestamp >= 0

\* an audio sample was appended shifted, after an earlier one was dropped
C13_Witness ==
  \E r \in Runs :
    /\ pc[r] = "done"
    /\ Len(mux[r].audio) = 1
    /\ mux[r].audio[1].timestamp > 0
    /\ mux[r].audio[1].timestamp < mux[r].audio[1].source
    /\ Len(ValidAudio(local[r].audioChunks, local[r].startMicro, local[r].endMicro)) = 2

\* C14: within one run the progress values of successive status messages never
\* decrease and lie in 0..100, and the phases appear in the order Initializing,
\* Rendering, Finalizing.
PhaseRank(phase) ==
  CASE phase = "Initializing" -> 1 [] phase = "Rendering" -> 2 [] OTHER -> 3

C14_ProgressMonotonic ==
  \A r \in Runs : \A i \in PostedBy(r, {"status"}) :
    /\ posted[i].phase \in {"Initializing", "Rendering", "Finalizing"}
    /\ posted[i].progress >= 0 /\ posted[i].progress <= 100
    /\ \A j \in PostedBy(r, {"status"}) :
         i < j => /\ posted[i].progress <= posted[j].progress
                  /\ PhaseRank(posted[i].phase) <= PhaseRank(posted[j].phase)

\* a run reported 'Rendering' at 0, progress from the decoder callback, 'Finalizing'
C14_Witness ==
  \E i, j, k \in DOMAIN posted :
    /\ i < j /\ j < k
    /\ posted[i].phase = "Rendering" /\ posted[i].progress = 0
    /\ posted[j].phase = "Rendering" /\ posted[j].progress > 0
    /\ posted[k].phase = "Finalizing" /\ posted[k].progress > posted[j].progress

C16_DegenerateTrajectory ==
  (solver.pc = "resolved" /\ Len(solver.anchorPoints) = 0) =>
    /\ Len(solver.finalKeyframes) = 2
    /\ solver.finalKeyframes[1].timestamp = 0
    /\ solver.finalKeyframes[2].timestamp = solver.duration
    /\ \A i \in 1..2 :
         /\ solver.finalKeyframes[i].centerX = HALF
         /\ solver.finalKeyframes[i].centerY = HALF - 50
         /\ solver.finalKeyframes[i].scale = ONE

\* the solver has returned for a video without anchors
C16_Witness ==
  /\ solver.pc = "resolved"
  /\ Len(solver.anchorPoints) = 0
  /\ solver.duration > 1
  /\ Len(solver.finalKeyframes) = 2

\* C17: for any anchors, empty or not, and any duration > 0 the returned sequence
\* has at least 2 keyframes, strictly increasing timestamps, first timestamp 0 and
\* last timestamp the duration.
C17_KeyframeSequence ==
  solver.pc = "resolved" =>
    LET kfs == solver.finalKeyframes
    IN /\ Len(kfs) >= 2
       /\ \A i \in DOMAIN kfs : i > 1 => kfs[i - 1].timestamp < kfs[i].timestamp
       /\ kfs[1].timestamp = 0
       /\ kfs[Len(kfs)].timestamp = solver.duration

\* C18: for any pixel differences seen by the phase-1 scan, the shot list is
\* contiguous and non-overlapping: each segment's end is the next segment's start,
\* the first segment starts at 0 and the last ends at the duration.
C18_ShotsPartition ==
  scan.pc \notin {"idle", "phase1"} =>
    LET shots == scan.shots
    IN /\ shots # << >>
       /\ shots[1].start = 0
       /\ shots[Len(shots)].end = scan.duration
       /\ \A i \in DOMAIN shots :
            /\ shots[i].start <= shots[i].end
            /\ i > 1 => shots[i - 1].end = shots[i].start

\* C19: the adaptive scan terminates: processSegment makes finitely many recursive
\* calls, each on an interval exactly half as wide as its caller's, and no call on
\* an interval narrower than the stop threshold probes the detector or recurses.
ScanIsOrderly ==
  /\ \A i \in DOMAIN scan.calls :
       LET c == scan.calls[i]
       IN c.caller # 0 =>
            /\ 2 * (c.t2 - c.t1) = c.caller
            /\ ~TooNarrow(c.caller, scan.scanMode)
  /\ \A i \in DOMAIN scan.probes :
       LET p == scan.probes[i]
       IN /\ ~TooNarrow(p.t2 - p.t1, scan.scanMode)
          /\ p.mid - p.t1 = p.t2 - p.mid

C19_ScanTerminates ==
  /\ []ScanIsOrderly
  /\ <>(scan.pc \in {"phase3", "rejected"})

\* the scan has ended after processSegment recursed twice below the first call and
\* returned from a call on an interval narrower than the threshold
C19_Witness ==
  /\ scan.pc = "phase3"
  /\ \E i \in DOMAIN scan.calls :
       /\ scan.calls[i].depth = 2
       /\ TooNarrow(scan.calls[i].t2 - scan.calls[i].t1, scan.scanMode)
  /\ Len(scan.probes) >= 3

\* C20: in every run the output video track is registered with the muxer once only,
\* inside the first encoder output callback and before that callback appends its
\* chunk; never before the first encoder output, and no video chunk is handed to
\* the muxer while the track is unregistered.
C20_LazyTrackCreation ==
  \A r \in Runs :
    /\ mux[r].trackAdds <= 1
    /\ mux[r].videoTrack <=> mux[r].trackAdds = 1
    /\ mux[r].videoTrack <=> mux[r].handed >= 1
    /\ mux[r].videoTrack => mux[r].addedAtOutput = 1
    /\ mux[r].dropped = 0

\* a muxer was handed three chunks by the encoder callback and holds them
C20_Witness ==
  \E r \in Runs :
    /\ mux[r].trackAdds = 1
    /\ mux[r].handed >= 3
    /\ Len(mux[r].video) >= 3

\* C21: the muxer rejects samples for a missing track: addVideoChunk (addAudioChunk)
\* called while the video (audio) track has not been added fails with an error and
\* adds no sample; it never returns normally having silently discarded the sample.
C21_MissingTrackRejected ==
  \A r \in Runs : mux[r].dropped = 0 /\ mux[r].audioDropped = 0

\* the index of the last key chunk at or before index i, or 0 when there is none
LastKeyAtOrBefore(chunks, i) ==
  LET keys == {k \in 1..i : chunks[k].type = "key"}
  IN IF keys = {} THEN 0 ELSE CHOOSE k \in keys : \A j \in keys : j <= k

\* the decode loop of run r is about to call videoDecoder.decode(chunk) on a
\* configured decoder
AboutToDecode(r) ==
  /\ running = r
  /\ pc[r] = "feed"
  /\ local[r].next <= Len(local[r].validChunks)
  /\ local[r].decoderStarted \/ local[r].validChunks[local[r].next].type = "key"
  /\ videoDecoder # 0
  /\ dec[videoDecoder].state = "configured"
  /\ Len(dec[videoDecoder].queue) <= QUEUE_LIMIT

PreRollOutput(d) ==
  /\ dec[d].state = "configured"
  /\ dec[d].codec # << >>
  /\ Head(dec[d].codec).timestamp < local[d].startMicro
  /\ dec'[d].outputs = dec[d].outputs + 1

\* C23: pre-roll discard: a decoded frame whose timestamp is before the trim start
\* is closed without being composited, is never submitted to the encoder, does not
\* set the timestamp offset and does not count towards progress.
C23_PreRollDiscarded ==
  [][\A d \in Runs :
       PreRollOutput(d) =>
         /\ dec'[d].closed = dec[d].closed + 1
         /\ dec'[d].rendered = dec[d].rendered
         /\ dec'[d].newFrames = dec[d].newFrames
         /\ enc' = enc
         /\ submitted' = submitted
         /\ local'[d].timestampOffset = local[d].timestampOffset
         /\ local'[d].framesProcessed = local[d].framesProcessed
         /\ posted' = posted]_vars

\* a run discarded a pre-roll frame and then encoded a frame at the trim start
C23_Witness ==
  \E r \in Runs :
    /\ dec[r].closed > dec[r].rendered
    /\ submitted[r] # << >>
    /\ local[r].timestampOffset = local[r].startMicro
    /\ local[r].framesProcessed = Len(submitted[r])
    /\ dec[r].first # << >>
    /\ dec[r].first[1].timestamp < local[r].startMicro

\* C24: sample extraction is complete: the promise of getAllVideoChunks
\* (getAllAudioChunks) resolves with every sample of the track; under any
\* interleaving of MP4Box sample-batch callbacks and the 100 ms completion poll, no
\* batch is delivered after the promise has resolved.
C24_ExtractionComplete ==
  ext.pc = "resolved" => ext.resolvedWith = ext.total /\ ext.late = 0

\* C25: sample extraction never blocks forever: for every successfully loaded
\* file, getAllVideoChunks and getAllAudioChunks eventually resolve, including for
\* a track that exists but delivers zero samples.
C25_ExtractionResolves ==
  (ext.pc = "extracting") ~> (ext.pc = "resolved")

\* C26: single-owner frame discipline: every frame output by the decoder is closed
\* exactly once, before the composited frame derived from it is submitted to the
\* encoder, and every composited output frame is closed exactly once right after it
\* is submitted; this holds on every path, including pre-roll discard, a compositor
\* failure and a cancel that arrives while frames are in flight.
C26_FramesClosedOnce ==
  \A d \in Runs :
    /\ dec[d].closed = dec[d].outputs
    /\ dec[d].newClosed = dec[d].newFrames

\* C27: preview and export use the same reframe: for every keyframe sequence with
\* non-decreasing timestamps (including empty and single-element sequences) and
\* every query time t, the render worker's linear-scan getInterpolatedReframe
\* returns the same x, y and scale as the binary-search getInterpolatedReframe used
\* by the preview.
C27_PreviewEqualsExport ==
  interp.asked => interp.worker = interp.result

\* both interpolated between the second of two keyframes of one timestamp and a
\* later keyframe
C27_Witness ==
  /\ interp.asked
  /\ Len(interp.keyframes) = 3
  /\ interp.keyframes[1].timestamp = interp.keyframes[2].timestamp
  /\ interp.keyframes[1].centerX # interp.keyframes[2].centerX
  /\ interp.time > interp.keyframes[2].timestamp
  /\ interp.time < interp.keyframes[3].timestamp
  /\ interp.worker.x # interp.keyframes[2].centerX
  /\ interp.worker.x # interp.keyframes[3].centerX
  /\ interp.keyframes[2].scale = 0
  /\ interp.worker.scale > ONE

\* keyframe time t belongs to the segment from anchor i to anchor i + 1: after the
\* earlier anchor (from it on, for the first anchor) and up to the later one
InSegment(anchors, i, t) ==
  /\ IF i = 1 THEN anchors[i].timestamp <= t ELSE anchors[i].timestamp < t
  /\ t <= anchors[i + 1].timestamp

\* C28: hard cut instead of pan: under mood 'cut', between two consecutive anchors
\* whose centerX differ by more than 0.1, every emitted keyframe has centerX equal
\* to the earlier anchor's centerX for t before the segment midpoint and equal to
\* the later anchor's centerX from the midpoint on, with the velocity reset to 0;
\* no keyframe in that segment takes an intermediate value.
C28_HardCut ==
  solver.mood = "cut" =>
    \A i \in 1..(Len(solver.anchorPoints) - 1) :
      LET a == solver.anchorPoints[i]
          b == solver.anchorPoints[i + 1]
          kfs == solver.finalKeyframes
      IN Abs(b.centerX - a.centerX) > CUT_DISTANCE =>
           \A j \in DOMAIN kfs :
             InSegment(solver.anchorPoints, i, kfs[j].timestamp) =>
               /\ kfs[j].centerX = IF 2 * kfs[j].timestamp >= a.timestamp + b.timestamp
                                   THEN b.centerX ELSE a.centerX
               /\ j = Len(kfs) /\ solver.pc = "loop" => solver.camVel = 0

\* a resolved 'cut' trajectory holds the earlier anchor's position before the
\* midpoint of a segment and the later anchor's after it
C28_Witness ==
  /\ solver.pc = "resolved"
  /\ solver.mood = "cut"
  /\ Len(solver.anchorPoints) >= 2
  /\ Abs(solver.anchorPoints[2].centerX - solver.anchorPoints[1].centerX) > CUT_DISTANCE
  /\ \E j, h \in DOMAIN solver.finalKeyframes :
       /\ j < h
       /\ solver.anchorPoints[1].timestamp < solver.finalKeyframes[j].timestamp
       /\ solver.finalKeyframes[h].timestamp <= solver.anchorPoints[2].timestamp
       /\ solver.finalKeyframes[j].centerX = solver.anchorPoints[1].centerX
       /\ solver.finalKeyframes[h].centerX = solver.anchorPoints[2].centerX

\* C29: the spring target stays between the bracketing anchors: in the linearly
\* interpolating modes ('cinematic', and 'smart' with anchor distance <= 0.2), at
\* every simulation step the target lies within [min, max] of the centerX of the
\* current and next anchor, including the steps whose time is before the first
\* anchor's timestamp.
C29_TargetBracketed ==
  solver.pc \in {"loop", "resolved"} /\ solver.finalKeyframes # << >>
     /\ solver.anchorPoints # << >> =>
    LET idx == solver.currentAnchorIdx
        currA == solver.anchorPoints[idx]
        nextA == IF idx = Len(solver.anchorPoints) THEN currA
                 ELSE solver.anchorPoints[idx + 1]
        lo == IF currA.centerX <= nextA.centerX THEN currA.centerX ELSE nextA.centerX
        hi == IF currA.centerX <= nextA.centerX THEN nextA.centerX ELSE currA.centerX
        linear == \/ solver.mood = "cinematic"
                  \/ /\ solver.mood = "smart"
                     /\ Abs(nextA.centerX - currA.centerX) <= SMART_DISTANCE
    IN linear => lo <= solver.rawTarget /\ solver.rawTarget <= hi

\* C30: the crop rectangle stays inside the source: for every camera centre (x, y)
\* in [0,1]x[0,1], every scale >= 1 and every source/target aspect ratio, the crop
\* offset and size passed to the shader satisfy 0 <= ox, 0 <= oy, ox + w <= 1 and
\* oy + h <= 1.
C30_CropInsideSource ==
  crop.rendered =>
    /\ 0 <= crop.ox
    /\ 0 <= crop.oy
    /\ crop.ox + crop.w <= ONE
    /\ crop.oy + crop.h <= ONE

====
